---- MODULE Spec2Model ----
(***************************************************************************)
(* Model of the entry-splitting parser and the routing state machine of   *)
(* jassist.voice_diary.route_transcription.                                *)
(*                                                                         *)
(* Python strings are sequences of one-character strings, so that          *)
(* str.lower, str.strip, str.split and the regular expressions are         *)
(* computed character by character.  None is the sentinel NoneStr for a    *)
(* string argument and NoId (0, falsy like None) for a record id.          *)
(***************************************************************************)
EXTENDS Integers, Sequences, FiniteSets, TLC

\* ------------------------------------------------------------------------
\* Characters and character classes (Python re / str semantics)
\* ------------------------------------------------------------------------

UpperChars == <<"A","B","C","D","E","F","G","H","I","J","K","L","M",
                "N","O","P","Q","R","S","T","U","V","W","X","Y","Z">>

LowerChars == <<"a","b","c","d","e","f","g","h","i","j","k","l","m",
                "n","o","p","q","r","s","t","u","v","w","x","y","z">>

DigitChars == {"0","1","2","3","4","5","6","7","8","9"}

Range(f) == {f[i] : i \in DOMAIN f}

Min(S) == CHOOSE x \in S : \A y \in S : x <= y

Max(S) == CHOOSE x \in S : \A y \in S : x >= y

\* \s of the re module and the characters str.strip() removes
IsSpace(c) == c \in {" ", "\n", "\t", "\r"}

\* \w of the re module
IsWord(c) == c \in Range(UpperChars) \cup Range(LowerChars) \cup DigitChars \cup {"_"}

\* str.lower() on one character
LowerChar(c) ==
    IF c \in Range(UpperChars)
    THEN LowerChars[CHOOSE i \in DOMAIN UpperChars : UpperChars[i] = c]
    ELSE c

\* str.lower()
Lower(s) == [i \in DOMAIN s |-> LowerChar(s[i])]

\* ------------------------------------------------------------------------
\* String helpers
\* ------------------------------------------------------------------------

kText == <<"t","e","x","t",":">>

kTag == <<"t","a","g",":">>

kQuote == "\""

kNL == <<"\n">>

kBlank == <<"\n","\n">>

\* s[i-1:] starts with p   (i is 1-based)
MatchAt(s, p, i) ==
    /\ i >= 1
    /\ i + Len(p) - 1 <= Len(s)
    /\ SubSeq(s, i, i + Len(p) - 1) = p

\* 1-based position of the first occurrence of p in s at or after from; 0 if none
Find(s, p, from) ==
    LET cands == {i \in from..(Len(s) - Len(p) + 1) : MatchAt(s, p, i)}
    IN  IF cands = {} THEN 0 ELSE Min(cands)

\* p in s
Contains(s, p) == Find(s, p, 1) # 0

\* s.startswith(p)
StartsWith(s, p) == MatchAt(s, p, 1)

\* s[n:]
Drop(s, n) == SubSeq(s, n + 1, Len(s))

\* position of the first non-space character at or after i; Len(s)+1 if none
SkipSpace(s, i) ==
    LET cands == {j \in i..Len(s) : ~IsSpace(s[j])}
    IN  IF cands = {} THEN Len(s) + 1 ELSE Min(cands)

\* str.strip()
Strip(s) ==
    LET keep == {j \in 1..Len(s) : ~IsSpace(s[j])}
    IN  IF keep = {} THEN <<>> ELSE SubSeq(s, Min(keep), Max(keep))

\* str.split(sep)
RECURSIVE Split(_, _)
Split(s, sep) ==
    LET i == Find(s, sep, 1)
    IN  IF i = 0 THEN <<s>>
        ELSE <<SubSeq(s, 1, i - 1)>> \o Split(Drop(s, i + Len(sep) - 1), sep)

\* [f(x) for x in seq if p(x)] building blocks
RECURSIVE SelectNonEmptyStripped(_)
SelectNonEmptyStripped(seq) ==
    IF seq = <<>> THEN <<>>
    ELSE LET b == Strip(Head(seq))
         IN  (IF b = <<>> THEN <<>> ELSE <<b>>) \o SelectNonEmptyStripped(Tail(seq))

\* remove one pair of surrounding double quotes:
\* if t.startswith('"') and t.endswith('"'): t = t[1:-1]
Unquote(t) ==
    IF Len(t) >= 1 /\ t[1] = kQuote /\ t[Len(t)] = kQuote
    THEN SubSeq(t, 2, Len(t) - 1)
    ELSE t

NoMatch == [found |-> FALSE, group |-> <<>>]

\* ------------------------------------------------------------------------
\* Regular expressions of parse_llm_response
\* ------------------------------------------------------------------------

\* all start positions of "text:" / "tag:" in s
Occurrences(s, p) == {i \in 1..Len(s) : MatchAt(s, p, i)}

\* re.search(r'text:\s*"([^"]*)"', block)
ReTextQuoted(s) ==
    LET ok(i) == LET j == SkipSpace(s, i + 5)
                 IN  /\ j <= Len(s)
                     /\ s[j] = kQuote
                     /\ \E k \in (j + 1)..Len(s) : s[k] = kQuote
        starts == {i \in Occurrences(s, kText) : ok(i)}
    IN  IF starts = {} THEN NoMatch
        ELSE LET i == Min(starts)
                 j == SkipSpace(s, i + 5)
                 k == Min({k \in (j + 1)..Len(s) : s[k] = kQuote})
             IN  [found |-> TRUE, group |-> SubSeq(s, j + 1, k - 1)]

\* re.search(r'text:\s*(.+?)(?:\n|$)', block)
\* \s* is greedy and backtracks; '.' does not match a newline
ReTextUnquoted(s) ==
    LET first(i) == {g \in (i + 5)..SkipSpace(s, i + 5) : g <= Len(s) /\ s[g] # "\n"}
        starts == {i \in Occurrences(s, kText) : first(i) # {}}
    IN  IF starts = {} THEN NoMatch
        ELSE LET i == Min(starts)
                 g == Max(first(i))
                 nls == {e \in (g + 1)..Len(s) : s[e] = "\n"}
                 e == IF nls = {} THEN Len(s) + 1 ELSE Min(nls)
             IN  [found |-> TRUE, group |-> SubSeq(s, g, e - 1)]

\* end (inclusive) of the greedy match of \w+(?:\s+\w+)* starting at g, s[g] a word character
RECURSIVE WordsEnd(_, _)
WordsEnd(s, g) ==
    LET nonw == {e \in g..Len(s) : ~IsWord(s[e])}
        we == IF nonw = {} THEN Len(s) ELSE Min(nonw) - 1
        nx == SkipSpace(s, we + 1)
    IN  IF nx > we + 1 /\ nx <= Len(s) /\ IsWord(s[nx])
        THEN WordsEnd(s, nx)
        ELSE we

\* variant: the tag pattern without its (?:\s+\w+)* tail, one word only
ReTagOneWord(s) ==
    LET ok(i) == LET g == SkipSpace(s, i + 4)
                 IN  g <= Len(s) /\ IsWord(s[g])
        starts == {i \in Occurrences(s, kTag) : ok(i)}
    IN  IF starts = {} THEN NoMatch
        ELSE LET i == Min(starts)
                 g == SkipSpace(s, i + 4)
                 nonw == {e \in g..Len(s) : ~IsWord(s[e])}
             IN  [found |-> TRUE,
                  group |-> SubSeq(s, g, IF nonw = {} THEN Len(s) ELSE Min(nonw) - 1)]

\* re.search(r'tag:\s*(\w+(?:\s+\w+)*)', block)
ReTag(s) ==
    LET ok(i) == LET g == SkipSpace(s, i + 4)
                 IN  g <= Len(s) /\ IsWord(s[g])
        starts == {i \in Occurrences(s, kTag) : ok(i)}
    IN  IF starts = {} THEN NoMatch
        ELSE LET i == Min(starts)
                 g == SkipSpace(s, i + 4)
             IN  [found |-> TRUE, group |-> SubSeq(s, g, WordsEnd(s, g))]

\* re.search(r'text:\s*"', block) is not None
ReTextQuoteOpen(s) ==
    \E i \in Occurrences(s, kText) :
        LET j == SkipSpace(s, i + 5) IN j <= Len(s) /\ s[j] = kQuote

\* ------------------------------------------------------------------------
\* parse_llm_response (strict parser)
\* ------------------------------------------------------------------------

Entry(t, g) == [text |-> t, tag |-> g]

\* lines 47-58: unquoted multi-line text, everything between 'text:' and 'tag:'
MultiLineText(block, text_content) ==
    IF ~ReTextQuoteOpen(block) /\ Contains(block, kNL)
    THEN LET ts == Find(block, kText, 1)
             gs == Find(block, kTag, 1)
             text_start_pos == SkipSpace(block, ts + 5)
         IN  IF ts # 0 /\ gs # 0 /\ gs > text_start_pos
             THEN Strip(SubSeq(block, text_start_pos, gs - 1))
             ELSE text_content
    ELSE text_content

\* lines 92-95: append the lines between "text:" and "tag:"
RECURSIVE AppendLines(_, _, _, _)
AppendLines(lines, i, tag_line_idx, text_content) ==
    IF i >= tag_line_idx THEN text_content
    ELSE AppendLines(lines, i + 1, tag_line_idx,
             IF ~StartsWith(Strip(lines[i + 1]), kText)
             THEN text_content \o <<" ">> \o Strip(lines[i + 1])
             ELSE text_content)

\* lines 66-101: line-by-line fallback; lines are indexed from 0 in the source
LineScan(block) ==
    LET lines == Split(Strip(block), kNL)
        tagIdxs == {i \in 0..(Len(lines) - 1) : StartsWith(Strip(lines[i + 1]), kTag)}
        tag_line_idx == IF tagIdxs = {} THEN 0 - 1 ELSE Min(tagIdxs)
        tag_value == IF tagIdxs = {} THEN <<>>
                     ELSE Lower(Strip(Drop(Strip(lines[tag_line_idx + 1]), 4)))
        textIdxs == {i \in 0..(tag_line_idx - 1) : StartsWith(Strip(lines[i + 1]), kText)}
        text_part == IF tag_line_idx > 0 /\ textIdxs # {}
                     THEN Unquote(Strip(Drop(Strip(lines[Min(textIdxs) + 1]), 5)))
                     ELSE <<>>
        text_content == IF text_part # <<>> /\ tag_line_idx > 1
                        THEN AppendLines(lines, 1, tag_line_idx, text_part)
                        ELSE text_part
    IN  IF text_content # <<>> /\ tag_value # <<>>
        THEN <<Entry(text_content, tag_value)>>
        ELSE <<>>

\* variant: one of the two matches is enough to enter the branch of lines 44-63
MatchGuardEither(text_match, tag_match) == text_match.found \/ tag_match.found

\* line 43: if text_match and tag_match
MatchGuard(text_match, tag_match) == text_match.found /\ tag_match.found

\* variant: every text: marker of the block starts an entry of its own, as with
\* re.finditer in place of re.search
RECURSIVE ParseBlockFindAll(_)
ParseBlockFindAll(block) ==
    LET quoted == ReTextQuoted(block)
        text_match == IF quoted.found THEN quoted ELSE ReTextUnquoted(block)
        tag_match == ReTag(block)
        first == IF MatchGuard(text_match, tag_match)
                 THEN <<Entry(MultiLineText(block, Strip(text_match.group)),
                              Lower(Strip(tag_match.group)))>>
                 ELSE IF Contains(block, kText) /\ Contains(block, kTag)
                      THEN LineScan(block)
                      ELSE <<>>
        i == Find(block, kText, 1)
        j == IF i = 0 THEN 0 ELSE Find(block, kText, i + Len(kText))
    IN  first \o (IF j = 0 THEN <<>> ELSE ParseBlockFindAll(Drop(block, j - 1)))

\* lines 34-101: the entries one block contributes
ParseBlock(block) ==
    LET quoted == ReTextQuoted(block)
        text_match == IF quoted.found THEN quoted ELSE ReTextUnquoted(block)
        tag_match == ReTag(block)
    IN  IF MatchGuard(text_match, tag_match)
        THEN <<Entry(MultiLineText(block, Strip(text_match.group)),
                     Lower(Strip(tag_match.group)))>>
        ELSE IF Contains(block, kText) /\ Contains(block, kTag)
             THEN LineScan(block)
             ELSE <<>>

RECURSIVE ParseBlocks(_)
ParseBlocks(blocks) ==
    IF blocks = <<>> THEN <<>>
    ELSE ParseBlock(Head(blocks)) \o ParseBlocks(Tail(blocks))

parse_llm_response(response) ==
    ParseBlocks(SelectNonEmptyStripped(Split(response, kBlank)))

\* m.group(1) with m = None: AttributeError
GroupRaises(m) == ~m.found

\* lines 43-45: the block makes parse_llm_response raise
BlockRaises(block) ==
    LET quoted == ReTextQuoted(block)
        text_match == IF quoted.found THEN quoted ELSE ReTextUnquoted(block)
        tag_match == ReTag(block)
    IN  MatchGuard(text_match, tag_match)
            /\ (GroupRaises(text_match) \/ GroupRaises(tag_match))

\* parse_llm_response(response) raises instead of returning
StrictRaises(response) ==
    \E b \in Range(SelectNonEmptyStripped(Split(response, kBlank))) : BlockRaises(b)

\* ------------------------------------------------------------------------
\* parse_complex_llm_response (permissive parser)
\* ------------------------------------------------------------------------

\* lines 262-267: the last line starting with the prefix, stripped; <<>> for None
LastLineWith(lines, prefix, excluded) ==
    LET idxs == {i \in 1..Len(lines) :
                    /\ StartsWith(Strip(lines[i]), prefix)
                    /\ \A x \in excluded : ~StartsWith(Strip(lines[i]), x)}
    IN  IF idxs = {} THEN <<>> ELSE Strip(lines[Max(idxs)])

\* line 269: if text_line and tag_line
LineGuard(text_line, tag_line) == text_line # <<>> /\ tag_line # <<>>

ComplexBlock(block) ==
    IF Strip(block) = <<>> THEN <<>>
    ELSE LET lines == Split(Strip(block), kNL)
             text_line == LastLineWith(lines, kText, {})
             tag_line == LastLineWith(lines, kTag, {kText})
         IN  IF Len(lines) < 2 THEN <<>>
             ELSE IF LineGuard(text_line, tag_line)
                  THEN <<Entry(Unquote(Strip(Drop(text_line, 5))),
                               Strip(Drop(tag_line, 4)))>>
                  ELSE <<>>

RECURSIVE ComplexBlocks(_)
ComplexBlocks(blocks) ==
    IF blocks = <<>> THEN <<>>
    ELSE ComplexBlock(Head(blocks)) \o ComplexBlocks(Tail(blocks))

parse_complex_llm_response(response) == ComplexBlocks(Split(response, kBlank))

\* lines 269-276: text_line[5:] / tag_line[4:] with the line still None: TypeError
ComplexBlockRaises(block) ==
    /\ Strip(block) # <<>>
    /\ LET lines == Split(Strip(block), kNL)
           text_line == LastLineWith(lines, kText, {})
           tag_line == LastLineWith(lines, kTag, {kText})
       IN  /\ Len(lines) >= 2
           /\ LineGuard(text_line, tag_line)
           /\ (text_line = <<>> \/ tag_line = <<>>)

\* parse_complex_llm_response(response) raises instead of returning
ComplexRaises(response) ==
    \E b \in Range(Split(response, kBlank)) : ComplexBlockRaises(b)

\* ------------------------------------------------------------------------
\* process_entry_by_tag and the category handlers
\* ------------------------------------------------------------------------

\* None passed where a str is expected (no character is longer than one symbol)
NoneStr == <<"<None>">>

\* no record id: None (and 0, equally falsy in `if entry_id:`)
NoId == 0
s_calendar == <<"c","a","l","e","n","d","a","r">>
s_diary == <<"d","i","a","r","y">>
s_to_do == <<"t","o","_","d","o">>
s_todo == <<"t","o","d","o">>
s_accounts == <<"a","c","c","o","u","n","t","s">>
s_account == <<"a","c","c","o","u","n","t">>
s_contacts == <<"c","o","n","t","a","c","t","s">>
s_contact == <<"c","o","n","t","a","c","t">>
s_entities == <<"e","n","t","i","t","i","e","s">>
s_entity == <<"e","n","t","i","t","y">>
\* variant: the singular aliases "account", "contact", "entity" and "todo" left out
ResolveLowerNoAlias(tag_lower) ==
    CASE tag_lower = s_calendar -> "calendar"
      [] tag_lower = s_diary -> "diary"
      [] tag_lower = s_to_do -> "todo"
      [] tag_lower = s_accounts -> "accounts"
      [] tag_lower = s_contacts -> "contacts"
      [] tag_lower = s_entities -> "entities"
      [] OTHER -> "none"

\* lines 299-317: the handler a category resolves to; "none" is the else branch
ResolveLower(tag_lower) ==
    CASE tag_lower = s_calendar -> "calendar"
      [] tag_lower = s_diary -> "diary"
      [] tag_lower = s_to_do \/ tag_lower = s_todo -> "todo"
      [] tag_lower = s_accounts \/ tag_lower = s_account -> "accounts"
      [] tag_lower = s_contacts \/ tag_lower = s_contact -> "contacts"
      [] tag_lower = s_entities \/ tag_lower = s_entity -> "entities"
      [] OTHER -> "none"

\* variant: the category is also stripped before it is compared
HandlerForStripped(tag) == ResolveLower(Lower(Strip(tag)))

\* line 300: tag_lower = tag.lower()
HandlerFor(tag) == ResolveLower(Lower(tag))

\* line 300 on a tag that is not a str: AttributeError
Raises(tag) == tag = NoneStr

\* the table a category's save path writes to
TableOf(h) ==
    CASE h = "calendar" -> "calendar_events"
      [] h = "diary" -> "diary"
      [] h = "todo" -> "to_do"
      [] h = "accounts" -> "accounts"
      [] h = "contacts" -> "contacts"
      [] h = "entities" -> "entities"

\* process_calendar_entry does not forward db_id to save_calendar_event
ForwardsId(h) == h # "calendar"

\* jassist.voice_diary.contacts.insert_into_contacts: forwards to the contacts
\* processor and returns its boolean
contacts_insert(ok) == ok

\* what insert_into_<category>(text, db_id) returns when its processor reports ok
HandlerReturn(h, ok) == IF h = "contacts" THEN contacts_insert(ok) ELSE ok

\* rows of the category tables after a successful save by handler h
SaveRow(rws, h, text_, id) ==
    LET n == Cardinality({i \in DOMAIN rws : rws[i].table = TableOf(h)})
    IN  Append(rws, [table |-> TableOf(h), id |-> n + 1, text |-> text_,
                     source |-> IF ForwardsId(h) THEN id ELSE NoId])

\* mark_transcription_processed: UPDATE transcriptions ... WHERE id = %s
mark_transcription_processed(trs, transcription_id, destination_table, destination_id) ==
    [i \in DOMAIN trs |->
        IF i = transcription_id
        THEN [trs[i] EXCEPT !.is_processed = TRUE,
                            !.destination_table = destination_table,
                            !.destination_id = destination_id]
        ELSE trs[i]]

\* the category save path: if source_transcription_id: mark_transcription_processed(...)
MarkAfterSave(trs, rws, h, id) ==
    IF ForwardsId(h) /\ id # NoId
    THEN mark_transcription_processed(trs, id, TableOf(h),
             Cardinality({i \in DOMAIN rws : rws[i].table = TableOf(h)}) + 1)
    ELSE trs

\* text[:50] + "..." if len(text) > 50 else text
TruncLen == 50

Truncate(t) ==
    IF Len(t) > TruncLen THEN SubSeq(t, 1, TruncLen) \o <<".", ".", ".">> ELSE t

\* the detection gate: x and isinstance(x, str) and "text:" in x and "tag:" in x
Gate(x) == x # NoneStr /\ x # <<>> /\ Contains(x, kText) /\ Contains(x, kTag)

\* variant: success needs more than one successful entry
MultiStatusStrict(sc) == IF sc > 1 THEN "success" ELSE "failed"

\* lines 184/217: result["status"] of a multi-entry invocation
MultiStatus(sc) == IF sc > 0 THEN "success" ELSE "failed"

\* lines 221: result["status"] of a single-entry invocation
SingleStatus(success) == IF success THEN "success" ELSE "failed"

\* variant: success_count incremented with processed_count, whatever the result
CountSuccessAlways(sc, entry_result) == sc + 1

\* lines 177-178, 210-211: if entry_result: success_count += 1
CountSuccess(sc, entry_result) == IF entry_result THEN sc + 1 ELSE sc

\* ------------------------------------------------------------------------
\* Inputs of route_transcription
\* ------------------------------------------------------------------------

\* largest number of text:/tag: blocks in a classifier answer
MaxEntries == 3

DigitOf == <<"1","2","3","4","5","6","7","8","9">>

s_reminder == <<"r","e","m","i","n","d","e","r">>

s_unclassified == <<"u","n","c","l","a","s","s","i","f","i","e","d">>

s_raw_transcription == <<"r","a","w","_","t","r","a","n","s","c","r","i","p","t","i","o","n">>

\* categories of the blocks of a classifier answer, in block order
BlockCats == <<<<"t","o","_","d","o">>, <<"C","a","l","e","n","d","a","r">>, <<"D","I","A","R","Y">>, <<"r","e","m","i","n","d","e","r">>, <<"C","o","n","t","a","c","t">>>>

EntryBody(i) == <<"e", DigitOf[i]>>

CatOf(i) == BlockCats[((i - 1) % Len(BlockCats)) + 1]

\* text: "e<i>"\ntag: <category i>
StdBlock(i) ==
    kText \o <<" ", kQuote>> \o EntryBody(i) \o <<kQuote>> \o kNL \o kTag \o <<" ">> \o CatOf(i)

RECURSIVE MultiEntry(_)
MultiEntry(k) ==
    IF k = 1 THEN StdBlock(1) ELSE MultiEntry(k - 1) \o kBlank \o StdBlock(k)

\* the strict parser finds nothing here, the permissive parser one entry
PermissiveOnlyA == <<"t","a","g",":"," ","#","x","\n","t","e","x","t",":"," ","p","1">>

PermissiveOnlyB == <<"t","a","g",":"," ","D","i","a","r","y","\n","t","e","x","t",":">>

\* both markers, no entry under either parser
GateOnly == <<"m","y"," ","t","e","x","t",":","t","a","g",":">>

RecognisedTags ==
    {s_calendar, s_diary, s_to_do, s_todo, s_accounts, s_account,
     s_contacts, s_contact, s_entities, s_entity,
     <<"C","a","l","e","n","d","a","r">>, <<"D","I","A","R","Y">>, <<"T","o","_","D","o">>, <<"T","o","D","o">>, <<"A","c","c","o","u","n","t","s">>, <<"A","C","C","O","U","N","T">>,
     <<"C","o","n","t","a","c","t","s">>, <<"c","o","n","t","a","c","T">>, <<"E","N","T","I","T","I","E","S">>, <<"E","n","t","i","t","y">>}

UnknownTags == {s_reminder, s_unclassified, <<"t","o"," ","d","o">>, <<" ","d","i","a","r","y">>, <<"d","i","a","r","y"," ">>, <<>>}

RouterTags ==
    RecognisedTags \cup UnknownTags \cup {NoneStr, PermissiveOnlyA, PermissiveOnlyB, GateOnly}
        \cup {MultiEntry(k) : k \in 1..MaxEntries}

PlainText == <<"L","u","n","c","h"," ","a","t"," ","n","o","o","n">>

\* the classifier answer delivered in the text field
TextWithEntries == <<"t","e","x","t",":"," ","t","1","\n","m","o","r","e","\n","t","a","g",":"," ","D","i","a","r","y","\n","\n","t","e","x","t",":"," ","t","2","\n","t","a","g",":"," ","t","o","d","o">>

RouterTexts == {PlainText, TextWithEntries, GateOnly}

\* ------------------------------------------------------------------------
\* State
\* ------------------------------------------------------------------------

VARIABLES
    text,                \* argument text
    tag,                 \* argument tag (raw classifier output)
    db_id_in,            \* argument db_id as the caller passed it
    dbUp,                \* whether initialize_db() succeeds
    pc,                  \* position in route_transcription
    db_id,               \* local db_id
    entries_from_input,  \* entries parsed before saving
    saved_entries_ids,   \* ids of the entries saved individually
    entries,             \* entries used by the second dispatch branch
    idx,                 \* iterations of the current loop already done
    processed_count,
    success_count,
    result,              \* the result dictionary
    transcriptions,      \* table transcriptions, row i has id i
    rows,                \* rows written to the category tables
    saveCalls,           \* history: save_to_database calls
    dispatchCalls,       \* history: process_entry_by_tag calls
    handlerCalls,        \* history: insert_into_<category> calls
    parseCalls,          \* history: parser calls
    response,            \* parser harness: the raw string
    genBlocks,           \* parser harness: what the raw string was built from
    parsed,              \* parser harness: the returned entries
    ppc                  \* parser harness: position

vars == <<text, tag, db_id_in, dbUp, pc, db_id, entries_from_input, saved_entries_ids,
          entries, idx, processed_count, success_count, result, transcriptions, rows,
          saveCalls, dispatchCalls, handlerCalls, parseCalls,
          response, genBlocks, parsed, ppc>>

inputVars == <<text, tag, db_id_in, dbUp>>

harnessVars == <<response, genBlocks, parsed, ppc>>

\* a key the result dictionary does not hold (yet)
NoKey == 0 - 1

NewRecord(content, tag_) ==
    [content |-> content, tag |-> tag_, is_processed |-> FALSE,
     destination_table |-> "", destination_id |-> NoId]

\* variant: the result starts out as a success
InitialResultOptimistic(id, tag_) ==
    [status |-> "success", db_id |-> id, tag |-> tag_, additional_processing |-> FALSE,
     entries_processed |-> 0, processed_entries |-> <<>>,
     success_count |-> NoKey, message |-> ""]

\* lines 39-46
InitialResult(id, tag_) ==
    [status |-> "failed", db_id |-> id, tag |-> tag_, additional_processing |-> FALSE,
     entries_processed |-> 0, processed_entries |-> <<>>,
     success_count |-> NoKey, message |-> ""]

\* the record the transcribe CLI saves before it classifies and routes
RawRecordId == 1

Init ==
    /\ text \in RouterTexts
    /\ tag \in RouterTags
    /\ db_id_in \in {NoId, RawRecordId}
    /\ dbUp \in BOOLEAN
    /\ pc = "start"
    /\ db_id = db_id_in
    /\ entries_from_input = <<>>
    /\ saved_entries_ids = <<>>
    /\ entries = <<>>
    /\ idx = 0
    /\ processed_count = 0
    /\ success_count = 0
    /\ result = InitialResult(db_id_in, tag)
    /\ transcriptions = <<NewRecord(text, s_raw_transcription)>>
    /\ rows = <<>>
    /\ saveCalls = <<>>
    /\ dispatchCalls = <<>>
    /\ handlerCalls = <<>>
    /\ parseCalls = <<>>
    /\ response = <<>>
    /\ genBlocks = <<>>
    /\ parsed = <<>>
    /\ ppc = "off"

\* ------------------------------------------------------------------------
\* save_to_database
\* ------------------------------------------------------------------------

\* the outcomes the INSERT can have; none when initialize_db() fails
SaveOutcomes == IF dbUp THEN BOOLEAN ELSE {FALSE}

\* db_interactions.py lines 127-158: the id returned
save_to_database(trs, ok) == IF dbUp /\ ok THEN Len(trs) + 1 ELSE NoId

\* transcription_repository.py lines 26-45: the table after the call
save_transcription(trs, ok, content, tag_) ==
    IF dbUp /\ ok THEN Append(trs, NewRecord(content, tag_)) ELSE trs

\* ------------------------------------------------------------------------
\* route_transcription, step by step
\* ------------------------------------------------------------------------

\* lines 61-71: the entries found before saving and the parser calls made, given
\* what the strict parser returns for the tag field (st) and for the text field (sx)
PreSaveParse(st, sx) ==
    IF Gate(tag) /\ st # <<>>
    THEN [entries |-> st, log |-> <<[parser |-> "strict", field |-> "tag"]>>]
    ELSE [entries |-> IF Gate(text) THEN sx ELSE <<>>,
          log |-> (IF Gate(tag) THEN <<[parser |-> "strict", field |-> "tag"]>> ELSE <<>>)
               \o (IF Gate(text) THEN <<[parser |-> "strict", field |-> "text"]>> ELSE <<>>)]

\* variant: the save step is entered even when the caller supplied a db_id
DetectEntriesAlwaysSave ==
    /\ pc = "start"
    /\ \E r \in {PreSaveParse(parse_llm_response(tag), parse_llm_response(text))} :
          /\ entries_from_input' = r.entries
          /\ parseCalls' = parseCalls \o r.log
          /\ pc' = IF r.entries # <<>> THEN "save_entries" ELSE "save_single"
    /\ UNCHANGED <<inputVars, db_id, saved_entries_ids, entries, idx, processed_count,
                   success_count, result, transcriptions, rows, saveCalls, dispatchCalls,
                   handlerCalls, harnessVars>>

\* lines 48-76: parse the classifier answer before saving
DetectEntries ==
    /\ pc = "start"
    /\ \E r \in {PreSaveParse(parse_llm_response(tag), parse_llm_response(text))} :
          /\ entries_from_input' = r.entries
          /\ parseCalls' = parseCalls \o r.log
          /\ pc' = IF db_id # NoId THEN "route"
                   ELSE IF r.entries # <<>> THEN "save_entries" ELSE "save_single"
    /\ UNCHANGED <<inputVars, db_id, saved_entries_ids, entries, idx, processed_count,
                   success_count, result, transcriptions, rows, saveCalls, dispatchCalls,
                   handlerCalls, harnessVars>>

\* variant: each entry is dispatched as soon as it is saved, inside the save loop
SaveEntryThenDispatch ==
    /\ pc = "save_entries"
    /\ idx < Len(entries_from_input)
    /\ \E ok \in SaveOutcomes :
         LET entry == entries_from_input[idx + 1]
             entry_id == save_to_database(transcriptions, ok)
         IN  /\ transcriptions' = save_transcription(transcriptions, ok, entry.text, entry.tag)
             /\ saveCalls' = Append(saveCalls,
                                [text |-> entry.text, tag |-> entry.tag, id |-> entry_id])
             /\ saved_entries_ids' = IF entry_id # NoId
                                     THEN Append(saved_entries_ids, entry_id)
                                     ELSE saved_entries_ids
             /\ dispatchCalls' = IF entry_id # NoId
                                 THEN Append(dispatchCalls,
                                        [text |-> entry.text, tag |-> entry.tag,
                                         id |-> entry_id, ret |-> TRUE])
                                 ELSE dispatchCalls
    /\ idx' = idx + 1
    /\ UNCHANGED <<inputVars, pc, db_id, entries_from_input, entries, processed_count,
                   success_count, result, rows, handlerCalls, parseCalls, harnessVars>>

\* lines 81-98: one iteration of the per-entry save loop
SaveEntry ==
    /\ pc = "save_entries"
    /\ idx < Len(entries_from_input)
    /\ \E ok \in SaveOutcomes :
         LET entry == entries_from_input[idx + 1]
             entry_id == save_to_database(transcriptions, ok)
         IN  /\ transcriptions' = save_transcription(transcriptions, ok, entry.text, entry.tag)
             /\ saveCalls' = Append(saveCalls,
                                [text |-> entry.text, tag |-> entry.tag, id |-> entry_id])
             /\ saved_entries_ids' = IF entry_id # NoId
                                     THEN Append(saved_entries_ids, entry_id)
                                     ELSE saved_entries_ids
    /\ idx' = idx + 1
    /\ UNCHANGED <<inputVars, pc, db_id, entries_from_input, entries, processed_count,
                   success_count, result, rows, dispatchCalls, handlerCalls, parseCalls,
                   harnessVars>>

\* lines 100-104 and 116-119: after the loop
SaveEntriesDone ==
    /\ pc = "save_entries"
    /\ idx = Len(entries_from_input)
    /\ IF saved_entries_ids # <<>>
       THEN /\ db_id' = saved_entries_ids[1]
            /\ result' = [result EXCEPT !.db_id = saved_entries_ids[1]]
            /\ pc' = "route"
       ELSE /\ db_id' = db_id
            /\ result' = [result EXCEPT !.message = "Database save failed"]
            /\ pc' = "done"
    /\ idx' = 0
    /\ UNCHANGED <<inputVars, entries_from_input, saved_entries_ids, entries, processed_count,
                   success_count, transcriptions, rows, saveCalls, dispatchCalls,
                   handlerCalls, parseCalls, harnessVars>>

\* lines 105-119: save the whole transcription as one record
SaveSingle ==
    /\ pc = "save_single"
    /\ \E ok \in SaveOutcomes :
         LET id == save_to_database(transcriptions, ok)
         IN  /\ transcriptions' = save_transcription(transcriptions, ok, text, tag)
             /\ saveCalls' = Append(saveCalls, [text |-> text, tag |-> tag, id |-> id])
             /\ db_id' = id
             /\ IF id = NoId
                THEN /\ result' = [result EXCEPT !.db_id = id,
                                                 !.message = "Database save failed"]
                     /\ pc' = "done"
                ELSE /\ result' = [result EXCEPT !.db_id = id]
                     /\ pc' = "route"
    /\ UNCHANGED <<inputVars, entries_from_input, saved_entries_ids, entries, idx,
                   processed_count, success_count, rows, dispatchCalls, handlerCalls,
                   parseCalls, harnessVars>>

\* lines 129-138 / 141-150: the strict parser's entries (st) for a field, the permissive
\* parser's (pm) if the strict parser found nothing
StrictThenPermissive(st, pm) == IF st # <<>> THEN st ELSE pm

ParseLog(st, name) ==
    <<[parser |-> "strict", field |-> name]>>
        \o (IF st = <<>> THEN <<[parser |-> "permissive", field |-> name]>> ELSE <<>>)

\* lines 123-150: the entries to dispatch and the parser calls made, given what the
\* strict and the permissive parser return for the tag field (st, pt) and for the
\* text field (sx, px)
SecondParse(st, pt, sx, px) ==
    IF entries_from_input # <<>> \/ saved_entries_ids # <<>>
    THEN [entries |-> entries_from_input, log |-> <<>>]
    ELSE IF Gate(tag) /\ StrictThenPermissive(st, pt) # <<>>
    THEN [entries |-> StrictThenPermissive(st, pt), log |-> ParseLog(st, "tag")]
    ELSE [entries |-> IF Gate(text) THEN StrictThenPermissive(sx, px) ELSE <<>>,
          log |-> (IF Gate(tag) THEN ParseLog(st, "tag") ELSE <<>>)
               \o (IF Gate(text) THEN ParseLog(sx, "text") ELSE <<>>)]

\* lines 121-157: choose the entries to dispatch and the dispatch branch
Route ==
    /\ pc = "route"
    /\ \E r \in {SecondParse(parse_llm_response(tag), parse_complex_llm_response(tag),
                             parse_llm_response(text), parse_complex_llm_response(text))} :
          /\ entries' = r.entries
          /\ parseCalls' = parseCalls \o r.log
          /\ pc' = IF saved_entries_ids # <<>> THEN "dispatch_saved"
                   ELSE IF r.entries # <<>> THEN "dispatch_entries" ELSE "dispatch_single"
    /\ idx' = 0
    /\ processed_count' = 0
    /\ success_count' = 0
    /\ UNCHANGED <<inputVars, db_id, entries_from_input, saved_entries_ids, result,
                   transcriptions, rows, saveCalls, dispatchCalls, handlerCalls, harnessVars>>

\* lines 285-317 with the handler it calls: process_entry_by_tag(text_, tag_, id)
\* when the category's processor reports ok
EntryResult(tag_, ok) ==
    IF HandlerFor(tag_) = "none" THEN TRUE ELSE HandlerReturn(HandlerFor(tag_), ok)

\* what the category's processor can report: success only after its save returned
\* an id (e.g. calendar_processor.py lines 59-71), which needs the database
HandlerOutcomes(tag_) ==
    IF HandlerFor(tag_) = "none" THEN {TRUE}
    ELSE IF dbUp THEN BOOLEAN ELSE {FALSE}

\* variant: a handler that fails undoes the rows written for the earlier entries
process_entry_by_tagRollback(text_, tag_, id, ok) ==
    LET h == HandlerFor(tag_)
    IN  /\ dispatchCalls' = Append(dispatchCalls,
               [text |-> text_, tag |-> tag_, id |-> id, ret |-> EntryResult(tag_, ok)])
        /\ IF h = "none"
           THEN UNCHANGED <<handlerCalls, rows, transcriptions>>
           ELSE /\ handlerCalls' = Append(handlerCalls,
                       [handler |-> h, text |-> text_, id |-> id, ret |-> HandlerReturn(h, ok)])
                /\ IF ok
                   THEN /\ rows' = SaveRow(rows, h, text_, id)
                        /\ transcriptions' = MarkAfterSave(transcriptions, rows, h, id)
                   ELSE /\ rows' = <<>>
                        /\ UNCHANGED transcriptions

process_entry_by_tag(text_, tag_, id, ok) ==
    LET h == HandlerFor(tag_)
    IN  /\ dispatchCalls' = Append(dispatchCalls,
               [text |-> text_, tag |-> tag_, id |-> id, ret |-> EntryResult(tag_, ok)])
        /\ IF h = "none"
           THEN UNCHANGED <<handlerCalls, rows, transcriptions>>
           ELSE /\ handlerCalls' = Append(handlerCalls,
                       [handler |-> h, text |-> text_, id |-> id, ret |-> HandlerReturn(h, ok)])
                /\ IF ok
                   THEN /\ rows' = SaveRow(rows, h, text_, id)
                        /\ transcriptions' = MarkAfterSave(transcriptions, rows, h, id)
                   ELSE UNCHANGED <<rows, transcriptions>>

\* lines 159-178: one iteration of the loop over the saved ids
DispatchSaved ==
    /\ pc = "dispatch_saved"
    /\ idx < Len(saved_entries_ids)
    /\ LET entry_id == saved_entries_ids[idx + 1]
       IN  IF idx < Len(entries_from_input)
           THEN LET entry == entries_from_input[idx + 1]
                IN  \E ok \in HandlerOutcomes(entry.tag) :
                      /\ process_entry_by_tag(entry.text, entry.tag, entry_id, ok)
                      /\ result' = [result EXCEPT !.processed_entries =
                             Append(@, [id |-> entry_id, text |-> Truncate(entry.text),
                                        tag |-> entry.tag,
                                        success |-> EntryResult(entry.tag, ok)])]
                      /\ processed_count' = processed_count + 1
                      /\ success_count' = CountSuccess(success_count, EntryResult(entry.tag, ok))
           ELSE UNCHANGED <<dispatchCalls, handlerCalls, rows, transcriptions, result,
                            processed_count, success_count>>
    /\ idx' = idx + 1
    /\ UNCHANGED <<inputVars, pc, db_id, entries_from_input, saved_entries_ids, entries,
                   saveCalls, parseCalls, harnessVars>>

\* lines 192-211: one iteration of the loop over the parsed entries
DispatchEntries ==
    /\ pc = "dispatch_entries"
    /\ idx < Len(entries)
    /\ LET entry == entries[idx + 1]
           entry_tag == Strip(entry.tag)
       IN  \E ok \in HandlerOutcomes(entry_tag) :
             /\ process_entry_by_tag(entry.text, entry_tag, db_id, ok)
             /\ result' = [result EXCEPT !.processed_entries =
                    Append(@, [id |-> NoKey, text |-> Truncate(entry.text),
                               tag |-> entry_tag,
                               success |-> EntryResult(entry_tag, ok)])]
             /\ processed_count' = processed_count + 1
             /\ success_count' = CountSuccess(success_count, EntryResult(entry_tag, ok))
    /\ idx' = idx + 1
    /\ UNCHANGED <<inputVars, pc, db_id, entries_from_input, saved_entries_ids, entries,
                   saveCalls, parseCalls, harnessVars>>

\* lines 180-184, 213-217 and 226-233: update the overall result and return it
Aggregate ==
    /\ \/ pc = "dispatch_saved" /\ idx = Len(saved_entries_ids)
       \/ pc = "dispatch_entries" /\ idx = Len(entries)
    /\ result' = [result EXCEPT !.entries_processed = processed_count,
                                !.success_count = success_count,
                                !.additional_processing = processed_count > 0,
                                !.status = MultiStatus(success_count)]
    /\ pc' = "done"
    /\ UNCHANGED <<inputVars, db_id, entries_from_input, saved_entries_ids, entries, idx,
                   processed_count, success_count, transcriptions, rows, saveCalls,
                   dispatchCalls, handlerCalls, parseCalls, harnessVars>>

\* lines 218-233: the single-entry branch
DispatchSingle ==
    /\ pc = "dispatch_single"
    /\ ~Raises(tag)
    /\ \E ok \in HandlerOutcomes(tag) :
         /\ process_entry_by_tag(text, tag, db_id, ok)
         /\ result' = [result EXCEPT !.status = SingleStatus(EntryResult(tag, ok)),
                                     !.additional_processing = EntryResult(tag, ok),
                                     !.entries_processed = 1,
                                     !.success_count = IF EntryResult(tag, ok) THEN 1 ELSE 0]
    /\ pc' = "done"
    /\ UNCHANGED <<inputVars, db_id, entries_from_input, saved_entries_ids, entries, idx,
                   processed_count, success_count, saveCalls, parseCalls, harnessVars>>

\* line 300 reached with a tag that has no lower(): the AttributeError propagates
\* through line 220 to the caller, no result is returned
DispatchRaises ==
    /\ pc = "dispatch_single"
    /\ Raises(tag)
    /\ pc' = "raised"
    /\ UNCHANGED <<inputVars, db_id, entries_from_input, saved_entries_ids, entries, idx,
                   processed_count, success_count, result, transcriptions, rows, saveCalls,
                   dispatchCalls, handlerCalls, parseCalls, harnessVars>>

Next ==
    \/ DetectEntries
    \/ SaveEntry
    \/ SaveEntriesDone
    \/ SaveSingle
    \/ Route
    \/ DispatchSaved
    \/ DispatchEntries
    \/ Aggregate
    \/ DispatchSingle
    \/ DispatchRaises

Spec == Init /\ [][Next]_vars

\* the scheduler is the Python interpreter: a started invocation keeps running
FairSpec == Spec /\ WF_vars(Next)

\* ------------------------------------------------------------------------
\* the transcribe CLI as caller of route_transcription
\* ------------------------------------------------------------------------

\* variant: the CLI hands the raw record's id to the router
CliRouteDbIdRaw(raw_db_id) == raw_db_id

\* transcribe_cli.py lines 157-163: the call passes text, file_path, tag, duration
\* and model_used; db_id keeps its default None
CliRouteDbId(raw_db_id) == NoId

\* transcribe_cli.py lines 112-163: the raw record has been saved with the tag
\* raw_transcription, the text classified, and route_transcription is called
CliInit ==
    /\ Init
    /\ db_id_in = CliRouteDbId(RawRecordId)

CliSpec == CliInit /\ [][Next]_vars

\* ------------------------------------------------------------------------
\* The parsers on their own: raw strings built from blocks
\* ------------------------------------------------------------------------

\* largest number of blocks in a generated raw string
MaxBlocks == 2

Bodies == {<<"B","u","y"," ","m","i","l","k">>, <<"M","e","e","t"," ","B","o","b"," ","a","t"," ","3","p","m">>, <<" ","x"," ">>, <<"s","e","e"," ","t","a","g",":"," ","z">>}

TagVals == {<<"t","o","_","d","o">>, <<"c","a","l","e","n","d","a","r">>, <<"T","o"," ","D","o"," ">>}

Orders == {"text_first", "tag_first"}

BlockDescs == [body : Bodies, tagv : TagVals, order : Orders]

BlockSeqs == UNION {[1..n -> BlockDescs] : n \in 0..MaxBlocks}

TextLine(b) == kText \o <<" ", kQuote>> \o b.body \o <<kQuote>>

TagLine(b) == kTag \o <<" ">> \o b.tagv

RenderBlock(b) ==
    IF b.order = "text_first"
    THEN TextLine(b) \o kNL \o TagLine(b)
    ELSE TagLine(b) \o kNL \o TextLine(b)

RECURSIVE Render(_)
Render(bs) ==
    IF bs = <<>> THEN <<>>
    ELSE IF Len(bs) = 1 THEN RenderBlock(bs[1])
    ELSE RenderBlock(bs[1]) \o kBlank \o Render(Tail(bs))

\* most tokens a raw string of any shape is put together from
MaxTokens == 3

t_text_a == <<"t","e","x","t",":"," ","a","\n">>

t_tag_b == <<"t","a","g",":"," ","b","\n">>

\* a text: line whose quoted value is empty
t_text_empty == <<"t","e","x","t",":"," ","\"","\"","\n">>

\* a text: line and its tag: line
t_pair == <<"t","e","x","t",":"," ","c","\n","t","a","g",":"," ","d","\n">>

\* pieces of raw strings: the markers alone and with a value, an empty quoted
\* text, a whole text:/tag: pair, a line break, a double quote, a word character,
\* a blank
RawTokens ==
    {kText, kTag, t_text_a, t_tag_b, t_text_empty, t_pair, kNL, <<kQuote>>, <<"x">>, <<" ">>}

RECURSIVE Concat(_)
Concat(ts) == IF ts = <<>> THEN <<>> ELSE Head(ts) \o Concat(Tail(ts))

\* raw strings of any shape: empty, blank, one marker only, tag: before text:,
\* unbalanced quotes, ...
RawInputs == {Concat(ts) : ts \in UNION {[1..n -> RawTokens] : n \in 0..MaxTokens}}

\* no route_transcription invocation is running
RouterOff ==
    /\ text = PlainText
    /\ tag = s_diary
    /\ db_id_in = NoId
    /\ dbUp = TRUE
    /\ pc = "off"
    /\ db_id = NoId
    /\ entries_from_input = <<>>
    /\ saved_entries_ids = <<>>
    /\ entries = <<>>
    /\ idx = 0
    /\ processed_count = 0
    /\ success_count = 0
    /\ result = InitialResult(NoId, s_diary)
    /\ transcriptions = <<>>
    /\ rows = <<>>
    /\ saveCalls = <<>>
    /\ dispatchCalls = <<>>
    /\ handlerCalls = <<>>
    /\ parseCalls = <<>>

ParseInit ==
    /\ genBlocks \in BlockSeqs
    /\ response = Render(genBlocks)
    /\ parsed = <<>>
    /\ ppc = "input"
    /\ RouterOff

\* a parser is about to be called on a raw string of any shape
RawInit ==
    /\ genBlocks = <<>>
    /\ response \in RawInputs
    /\ parsed = <<>>
    /\ ppc = "input"
    /\ RouterOff

routerVars == <<text, tag, db_id_in, dbUp, pc, db_id, entries_from_input, saved_entries_ids,
                entries, idx, processed_count, success_count, result, transcriptions, rows,
                saveCalls, dispatchCalls, handlerCalls, parseCalls>>

\* a call parse_llm_response(response)
ParseStrict ==
    /\ ppc = "input"
    /\ IF StrictRaises(response)
       THEN parsed' = parsed /\ ppc' = "raised"
       ELSE parsed' = parse_llm_response(response) /\ ppc' = "strict"
    /\ UNCHANGED <<response, genBlocks, routerVars>>

\* a call parse_complex_llm_response(response)
ParsePermissive ==
    /\ ppc = "input"
    /\ IF ComplexRaises(response)
       THEN parsed' = parsed /\ ppc' = "raised"
       ELSE parsed' = parse_complex_llm_response(response) /\ ppc' = "permissive"
    /\ UNCHANGED <<response, genBlocks, routerVars>>

ParseNext == ParseStrict \/ ParsePermissive

ParseSpec == ParseInit /\ [][ParseNext]_vars

RawParseSpec == RawInit /\ [][ParseNext]_vars

\* ---- unquoted multi-line text: fields ----

\* most lines of one text: field
MaxLines == 3

\* a line of text content, plain or padded with blanks
LineVals == {<<"l","1">>, <<" ","l","2"," ">>}

\* the content may start on the text: line or on the line after it
FirstLineVals == LineVals \cup {<<>>}

\* the lines of a multi-line text: field
MultiLineTexts ==
    {ls \in UNION {[1..n -> FirstLineVals] : n \in 2..MaxLines} :
        \A i \in 2..Len(ls) : ls[i] \in LineVals}

\* tag values: one word, two words, and one that starts with a non-word character
MultiLineTags == {<<"d","i","a","r","y">>, <<"T","o"," ","D","o">>, <<"#","x">>}

\* "\n".join(ls)
RECURSIVE JoinLines(_)
JoinLines(ls) ==
    IF ls = <<>> THEN <<>>
    ELSE IF Len(ls) = 1 THEN Head(ls)
    ELSE Head(ls) \o kNL \o JoinLines(Tail(ls))

\* text: <line 1>\n<line 2>...\ntag: <v>
RenderMultiLine(ls, v) == kText \o <<" ">> \o JoinLines(ls) \o kNL \o kTag \o <<" ">> \o v

\* a parser is about to be called on one block with an unquoted multi-line text
MultiLineInit ==
    /\ \E ls \in MultiLineTexts, v \in MultiLineTags :
          /\ genBlocks = <<[lines |-> ls, tagv |-> v]>>
          /\ response = RenderMultiLine(ls, v)
    /\ parsed = <<>>
    /\ ppc = "input"
    /\ RouterOff

MultiLineSpec == MultiLineInit /\ [][ParseNext]_vars

\* ------------------------------------------------------------------------
\* Properties
\* ------------------------------------------------------------------------

\* the invocation saved its parsed entries one by one (no db_id from the caller)
SavedIndividually == db_id_in = NoId /\ entries_from_input # <<>>

\* route_transcription returned a result after its dispatch step
ReturnedAfterDispatch == pc = "done" /\ result.message = ""

\* the ten category labels that have a handler
TenLabels ==
    {s_calendar, s_diary, s_to_do, s_todo, s_accounts, s_account,
     s_contacts, s_contact, s_entities, s_entity}

NumTrue(calls) == Cardinality({i \in DOMAIN calls : calls[i].ret})

\* the process_entry_by_tag call made by the current step, if it made one
Dispatched == Len(dispatchCalls') = Len(dispatchCalls) + 1

LastCall == dispatchCalls'[Len(dispatchCalls')]

\* C1: when the parsed entries were saved individually, every dispatch call gets the id
\* that save_to_database returned for the same entry's text and tag, and the
\* processed_entries element of that call carries the same id, whatever saves failed.
C1_IndexAlignment ==
    SavedIndividually =>
        \A i \in DOMAIN dispatchCalls :
            /\ \E j \in DOMAIN saveCalls :
                  /\ saveCalls[j].text = dispatchCalls[i].text
                  /\ saveCalls[j].tag = dispatchCalls[i].tag
                  /\ saveCalls[j].id = dispatchCalls[i].id
                  /\ saveCalls[j].id # NoId
            /\ result.processed_entries[i].id = dispatchCalls[i].id

\* C2: in the multi-entry path without db_id an entry whose save returned no id is
\* skipped (no handler gets its text, no processed_entries element holds it), and
\* once the save loop is over a save was attempted for every parsed entry.
C2_FailedSaveSkipped ==
    SavedIndividually =>
        /\ \A j \in DOMAIN saveCalls :
              saveCalls[j].id = NoId =>
                  /\ \A h \in DOMAIN handlerCalls : handlerCalls[h].text # saveCalls[j].text
                  /\ \A e \in DOMAIN result.processed_entries :
                        result.processed_entries[e].text # Truncate(saveCalls[j].text)
        /\ pc \notin {"start", "save_entries"} => Len(saveCalls) = Len(entries_from_input)

\* C3: no exception escapes route_transcription, every invocation returns a result.
C3_NoExceptionEscapes == pc # "raised"

\* C4: in every result returned after the dispatch step, status is "success" exactly
\* when success_count > 0; three dispatches of which one succeeds give status
\* "success", success_count 1 and entries_processed 3.
C4_StatusIffSuccess ==
    ReturnedAfterDispatch =>
        /\ (result.status = "success") <=> (result.success_count > 0)
        /\ result.status \in {"success", "failed"}
        /\ (Len(dispatchCalls) = 3 /\ NumTrue(dispatchCalls) = 1) =>
              /\ result.status = "success"
              /\ result.success_count = 1
              /\ result.entries_processed = 3

C4_Witness ==
    /\ ReturnedAfterDispatch
    /\ Len(dispatchCalls) = 3
    /\ NumTrue(dispatchCalls) = 1
    /\ result.status = "success"

\* C5: in every result returned after dispatch, entries_processed is the number of
\* process_entry_by_tag calls made (1 in the single-entry path) and success_count the
\* number of those that returned true, so 0 <= success_count <= entries_processed.
C5_CountsMatchCalls ==
    ReturnedAfterDispatch =>
        /\ result.entries_processed = Len(dispatchCalls)
        /\ result.success_count = NumTrue(dispatchCalls)
        /\ 0 <= result.success_count
        /\ result.success_count <= result.entries_processed
        /\ (entries = <<>> /\ saved_entries_ids = <<>>) => result.entries_processed = 1

C5_Witness ==
    /\ ReturnedAfterDispatch
    /\ Len(dispatchCalls) = 3
    /\ NumTrue(dispatchCalls) = 2
    /\ result.success_count = 2

\* what step 1 finds: strict parser, then permissive fallback, tag field before text field
Step1Entries ==
    LET fromTag == IF Gate(tag)
                   THEN StrictThenPermissive(parse_llm_response(tag),
                                             parse_complex_llm_response(tag))
                   ELSE <<>>
    IN  IF fromTag # <<>> THEN fromTag
        ELSE IF Gate(text)
             THEN StrictThenPermissive(parse_llm_response(text),
                                       parse_complex_llm_response(text))
             ELSE <<>>

\* C6: without db_id, when step 1 (strict parser, then permissive fallback) finds N >= 1
\* entries, exactly N save_to_database calls are made, the i-th with the i-th
\* entry's text and tag; the whole transcript is not saved as one record.
C6_EachEntrySavedSeparately ==
    (db_id_in = NoId /\ pc \notin {"start", "save_entries", "save_single"}
                     /\ Step1Entries # <<>>) =>
        /\ Len(saveCalls) = Len(Step1Entries)
        /\ \A i \in DOMAIN saveCalls :
              /\ saveCalls[i].text = Step1Entries[i].text
              /\ saveCalls[i].tag = Step1Entries[i].tag

\* C7: a process_entry_by_tag call whose lower-cased category is none of the ten labels
\* returns True, calls no handler and leaves every stored record unchanged.
C7_UnknownIsNoOp ==
    [][(Dispatched /\ Lower(LastCall.tag) \notin TenLabels) =>
          /\ LastCall.ret = TRUE
          /\ handlerCalls' = handlerCalls
          /\ transcriptions' = transcriptions
          /\ rows' = rows]_vars

C7_Witness ==
    /\ pc = "done"
    /\ Len(dispatchCalls) = 1
    /\ dispatchCalls[1].tag = <<" ","d","i","a","r","y">>
    /\ dispatchCalls[1].ret
    /\ handlerCalls = <<>>

\* the handler the claim names for a lower-cased label
C8_Expected(l) ==
    CASE l = s_calendar -> "calendar"
      [] l = s_diary -> "diary"
      [] l \in {s_to_do, s_todo} -> "todo"
      [] l \in {s_accounts, s_account} -> "accounts"
      [] l \in {s_contacts, s_contact} -> "contacts"
      [] l \in {s_entities, s_entity} -> "entities"

\* C8: a process_entry_by_tag call whose category is one of the ten labels in any
\* letter case calls exactly the handler the label names, exactly once, with the
\* call's text and id, and returns that handler's boolean unchanged.
C8_LabelResolution ==
    [][(Dispatched /\ Lower(LastCall.tag) \in TenLabels) =>
          /\ Len(handlerCalls') = Len(handlerCalls) + 1
          /\ SubSeq(handlerCalls', 1, Len(handlerCalls)) = handlerCalls
          /\ LET hc == handlerCalls'[Len(handlerCalls')]
             IN  /\ hc.handler = C8_Expected(Lower(LastCall.tag))
                 /\ hc.text = LastCall.text
                 /\ hc.id = LastCall.id
                 /\ hc.ret = LastCall.ret]_vars

C8_Witness ==
    /\ pc = "done"
    /\ Len(dispatchCalls) = 1
    /\ dispatchCalls[1].tag = <<"A","C","C","O","U","N","T">>
    /\ Len(handlerCalls) = 1
    /\ handlerCalls[1].handler = "accounts"
    /\ ~handlerCalls[1].ret
    /\ ~dispatchCalls[1].ret

\* the generated block is one quoted text: line followed by one tag: line, and the
\* quoted content does not itself hold a tag: marker
TextFirstClean(b) == b.order = "text_first" /\ ~Contains(b.body, kTag)

\* one entry per generated block: the quoted content and the tag value, stripped,
\* the tag value lower-cased
ExpectedEntries(bs) ==
    [i \in DOMAIN bs |-> Entry(Strip(bs[i].body), Lower(Strip(bs[i].tagv)))]

C10_EveryEntryDispatchedOnce ==
    ReturnedAfterDispatch =>
        /\ SavedIndividually =>
              \A j \in DOMAIN saveCalls :
                  saveCalls[j].id # NoId =>
                      Cardinality({i \in DOMAIN dispatchCalls :
                                      /\ dispatchCalls[i].text = saveCalls[j].text
                                      /\ dispatchCalls[i].id = saveCalls[j].id}) = 1
        /\ (db_id_in # NoId /\ entries # <<>>) =>
              /\ Len(dispatchCalls) = Len(entries)
              /\ \A i \in DOMAIN entries : dispatchCalls[i].text = entries[i].text

\* C11: a dispatch with a record id to one of the six category handlers that returns
\* True leaves that record with is_processed = true and with destination_table /
\* destination_id naming the row the handler wrote in this step.
C11_SuccessMarksRecord ==
    [][(Dispatched /\ LastCall.id # NoId /\ Lower(LastCall.tag) \in TenLabels
                   /\ LastCall.ret) =>
          /\ transcriptions'[LastCall.id].is_processed
          /\ Len(rows') = Len(rows) + 1
          /\ transcriptions'[LastCall.id].destination_table = rows'[Len(rows')].table
          /\ transcriptions'[LastCall.id].destination_id = rows'[Len(rows')].id]_vars

\* C12: within one invocation no step changes is_processed, destination_table or
\* destination_id of a record that is already marked processed.
C12_MarkedAtMostOnce ==
    [][\A i \in DOMAIN transcriptions :
          transcriptions[i].is_processed => transcriptions'[i] = transcriptions[i]]_vars

\* C13: when the parsed entries were saved individually and at least one save
\* succeeded, the db_id of the result is the id returned by the save of the first
\* parsed entry.
C13_ReportsFirstEntryId ==
    (SavedIndividually /\ pc \notin {"start", "save_entries"} /\ saved_entries_ids # <<>>) =>
        /\ saveCalls[1].text = entries_from_input[1].text
        /\ result.db_id = saveCalls[1].id

\* C14: when initialize_db() fails, no category handler is invoked and the returned
\* result has status "failed" and entries_processed = 0, with or without a db_id
\* from the caller.
C14_AbortsWhenDbDown ==
    ~dbUp =>
        /\ handlerCalls = <<>>
        /\ dispatchCalls = <<>>
        /\ pc = "done" => (result.status = "failed" /\ result.entries_processed = 0)

\* C15: without db_id and with no entries found before saving, exactly one
\* save_to_database call is made, with the whole text and the raw tag, and its id is
\* the db_id; if it returned no id the invocation returns status "failed",
\* entries_processed = 0, processed_entries empty, and no handler was invoked.
C15_SingleSave ==
    (db_id_in = NoId /\ entries_from_input = <<>> /\ pc \notin {"start", "save_single"}) =>
        /\ Len(saveCalls) = 1
        /\ saveCalls[1].text = text
        /\ saveCalls[1].tag = tag
        /\ db_id = saveCalls[1].id
        /\ result.db_id = saveCalls[1].id
        /\ saveCalls[1].id = NoId =>
              /\ pc = "done"
              /\ result.status = "failed"
              /\ result.entries_processed = 0
              /\ result.processed_entries = <<>>
              /\ dispatchCalls = <<>>
              /\ handlerCalls = <<>>

C15_Witness ==
    /\ db_id_in = NoId
    /\ dbUp
    /\ pc = "done"
    /\ entries_from_input = <<>>
    /\ saveCalls = <<[text |-> text, tag |-> tag, id |-> NoId]>>
    /\ result.message = "Database save failed"

\* neither field holds both markers
NoGate == ~Gate(tag) /\ ~Gate(text)

\* route_transcription has come to its end with a record id in hand
EndedWithId == pc \in {"done", "raised"} /\ db_id # NoId

\* C16: when neither tag nor text holds both "text:" and "tag:", no parser is called,
\* and an invocation that has a record id ends with exactly one dispatch
\* process_entry_by_tag(text, tag, db_id) and entries_processed = 1.
C16_NoGateSingleEntry ==
    NoGate =>
        /\ parseCalls = <<>>
        /\ entries_from_input = <<>>
        /\ entries = <<>>
        /\ EndedWithId =>
              /\ Len(dispatchCalls) = 1
              /\ dispatchCalls[1].text = text
              /\ dispatchCalls[1].tag = tag
              /\ dispatchCalls[1].id = db_id
              /\ result.entries_processed = 1

\* the gate fired on a field, and neither parser found an entry
GateFiredNoEntries == (Gate(tag) \/ Gate(text)) /\ Step1Entries = <<>>

\* C17: when the gate fires and both parsers find nothing, the invocation is handled
\* as a single entry without error: the original text and raw tag are saved (when no
\* db_id was passed) and, with a record id in hand, dispatched exactly once, with
\* entries_processed = 1.
C17_FallsBackToSingle ==
    GateFiredNoEntries =>
        /\ pc # "raised"
        /\ entries_from_input = <<>>
        /\ (db_id_in = NoId /\ pc \notin {"start", "save_single"}) =>
              saveCalls = <<[text |-> text, tag |-> tag, id |-> db_id]>>
        /\ (pc = "done" /\ db_id # NoId) =>
              /\ Len(dispatchCalls) = 1
              /\ dispatchCalls[1].text = text
              /\ dispatchCalls[1].tag = tag
              /\ dispatchCalls[1].id = db_id
              /\ result.entries_processed = 1

\* C18: in every routing path processed_entries holds one element per dispatch
\* attempt, in dispatch order, with that dispatch's (truncated) text, its category
\* and its result, also when the result is false.
C18_OneElementPerDispatch ==
    /\ Len(result.processed_entries) = Len(dispatchCalls)
    /\ \A i \in DOMAIN dispatchCalls :
          /\ result.processed_entries[i].text = Truncate(dispatchCalls[i].text)
          /\ result.processed_entries[i].tag = dispatchCalls[i].tag
          /\ result.processed_entries[i].success = dispatchCalls[i].ret

\* the step is an iteration of one of the two multi-entry dispatch loops
InDispatchLoop == pc \in {"dispatch_saved", "dispatch_entries"}

\* the number of elements the running dispatch loop ranges over
LoopLength == IF pc = "dispatch_saved" THEN Len(saved_entries_ids) ELSE Len(entries)

\* C19: in the multi-entry loops a dispatch that returns false leaves the rows written
\* for the other entries and the records saved for the other entries as they were,
\* and the loop goes on to the next element; no step removes a row an earlier handler
\* wrote or a record an earlier save created; and the loop is left only after every
\* element it ranges over has been dispatched.
C19_NoRollbackNoShortCircuit ==
    [][/\ (InDispatchLoop /\ Dispatched /\ ~LastCall.ret) =>
              /\ Len(rows') >= Len(rows)
              /\ SubSeq(rows', 1, Len(rows)) = rows
              /\ \A i \in DOMAIN transcriptions :
                     i # LastCall.id => transcriptions'[i] = transcriptions[i]
              /\ pc' = pc
              /\ idx' = idx + 1
       /\ Len(rows') >= Len(rows)
       /\ SubSeq(rows', 1, Len(rows)) = rows
       /\ Len(transcriptions') >= Len(transcriptions)
       /\ \A i \in DOMAIN transcriptions :
              /\ transcriptions'[i].content = transcriptions[i].content
              /\ transcriptions'[i].tag = transcriptions[i].tag
       /\ (InDispatchLoop /\ pc' = "done") =>
              /\ Len(dispatchCalls) = LoopLength
              /\ pc = "dispatch_saved" =>
                    \A i \in DOMAIN saved_entries_ids :
                        dispatchCalls[i].id = saved_entries_ids[i]
              /\ pc = "dispatch_entries" =>
                    \A i \in DOMAIN entries : dispatchCalls[i].text = entries[i].text]_vars

C19_Witness ==
    /\ pc = "done"
    /\ Len(saved_entries_ids) = 3
    /\ Len(dispatchCalls) = 3
    /\ dispatchCalls[1].ret
    /\ ~dispatchCalls[2].ret
    /\ dispatchCalls[3].ret
    /\ Len(rows) = 2
    /\ rows[1].text = dispatchCalls[1].text
    /\ rows[2].text = dispatchCalls[3].text

\* a Python list of {'text': str, 'tag': str} dictionaries
IsEntryList(es) ==
    /\ DOMAIN es = 1..Len(es)
    /\ \A i \in DOMAIN es :
          /\ DOMAIN es[i] = {"text", "tag"}
          /\ DOMAIN es[i].text = 1..Len(es[i].text)
          /\ DOMAIN es[i].tag = 1..Len(es[i].tag)

\* C20: on every raw string, well-formed or not, parse_llm_response and
\* parse_complex_llm_response raise nothing and return a (possibly empty) list of
\* entries.
C20_ParsersNeverRaise ==
    /\ ppc # "raised"
    /\ ppc \in {"strict", "permissive"} => IsEntryList(parsed)

\* tag: before text: with an unbalanced quote: the strict parser returns its entry
C20_Witness ==
    /\ ppc = "strict"
    /\ response = t_tag_b \o kText \o <<kQuote>>
    /\ parsed = <<Entry(<<kQuote>>, <<"b","\n","t","e","x","t">>)>>

\* what parsing the tag field yields: strict parser, then permissive fallback
TagEntries ==
    IF Gate(tag)
    THEN StrictThenPermissive(parse_llm_response(tag), parse_complex_llm_response(tag))
    ELSE <<>>

\* the entries route_transcription dispatches, once it has chosen them
RoutedEntries == IF entries_from_input # <<>> THEN entries_from_input ELSE entries

\* route_transcription has chosen what to dispatch
Routing == pc \in {"dispatch_saved", "dispatch_entries", "dispatch_single"}

\* what the logged parser call returned
ParseResult(call) ==
    LET field == IF call.field = "tag" THEN tag ELSE text
    IN  IF call.parser = "strict" THEN parse_llm_response(field)
        ELSE parse_complex_llm_response(field)

\* C22: the tag field is checked before the text field: when parsing tag yields at
\* least one entry, text is never parsed and the routed entries are those of tag; a
\* parser call on text is made only when the gate did not fire on tag or parsing tag
\* yielded no entry, and then after the calls on tag.
C22_TagBeforeText ==
    /\ TagEntries # <<>> =>
          /\ \A k \in DOMAIN parseCalls : parseCalls[k].field # "text"
          /\ Routing => RoutedEntries = TagEntries
    /\ \A k \in DOMAIN parseCalls :
          (parseCalls[k].field = "text" /\ Gate(tag)) =>
              \E j \in 1..(k - 1) : parseCalls[j].field = "tag"

\* C23: on a field the gate fired on, the strict parser runs first and the permissive
\* parser only right after a strict call on the same field that returned no entry; a
\* tag response with no strict but some permissive entries is routed as those
\* permissive entries, with or without db_id.
C23_StrictThenPermissive ==
    /\ \A k \in DOMAIN parseCalls :
          parseCalls[k].parser = "permissive" =>
              /\ k > 1
              /\ parseCalls[k - 1] = [parser |-> "strict", field |-> parseCalls[k].field]
              /\ ParseResult(parseCalls[k - 1]) = <<>>
    /\ (Gate(tag) /\ parse_llm_response(tag) = <<>>
                  /\ parse_complex_llm_response(tag) # <<>> /\ Routing) =>
          /\ pc = "dispatch_entries"
          /\ entries = parse_complex_llm_response(tag)

\* C24: every entry either parser returns has a non-empty text and a non-empty
\* category; a block whose text is empty (text: "" with a valid tag) or whose tag is
\* bare contributes no entry.
C24_EntriesNonEmpty ==
    ppc \in {"strict", "permissive"} =>
        \A i \in DOMAIN parsed : parsed[i].text # <<>> /\ parsed[i].tag # <<>>

\* C25: every parsed entry route_transcription holds, from the strict or from the
\* permissive parser, carries a category that is already stripped and lower-cased.
C25_CategoryLowerCased ==
    /\ \A i \in DOMAIN entries_from_input :
          entries_from_input[i].tag = Lower(Strip(entries_from_input[i].tag))
    /\ \A i \in DOMAIN entries : entries[i].tag = Lower(Strip(entries[i].tag))

\* the stripped non-empty lines ls occur in t one after the other, from position from on
RECURSIVE LinesInOrder(_, _, _)
LinesInOrder(t, ls, from) ==
    IF ls = <<>> THEN TRUE
    ELSE LET l == Strip(Head(ls))
             p == Find(t, l, from)
         IN  IF l = <<>> THEN LinesInOrder(t, Tail(ls), from)
             ELSE p # 0 /\ LinesInOrder(t, Tail(ls), p + Len(l))

\* C26: for an unquoted multi-line text: field followed by a tag: line,
\* parse_llm_response returns one entry whose text holds every line between the two
\* markers, in order, and nothing from the tag: line onward.
C26_MultiLineTextKept ==
    ppc = "strict" =>
        /\ Len(parsed) = 1
        /\ LinesInOrder(parsed[1].text, genBlocks[1].lines, 1)
        /\ ~Contains(parsed[1].text, kTag)
        /\ ~Contains(parsed[1].text, genBlocks[1].tagv)

\* C27: when the caller supplies a db_id, route_transcription saves nothing, keeps
\* that id as the result's db_id, and dispatches every parsed entry (or the single
\* entry) with that id.
C27_SuppliedIdKept ==
    db_id_in # NoId =>
        /\ saveCalls = <<>>
        /\ Len(transcriptions) = 1
        /\ db_id = db_id_in
        /\ result.db_id = db_id_in
        /\ \A k \in DOMAIN dispatchCalls : dispatchCalls[k].id = db_id_in
        /\ pc = "done" =>
              IF entries = <<>>
              THEN /\ Len(dispatchCalls) = 1
                   /\ dispatchCalls[1].text = text
                   /\ dispatchCalls[1].tag = tag
              ELSE /\ Len(dispatchCalls) = Len(entries)
                   /\ \A k \in DOMAIN entries :
                         /\ dispatchCalls[k].text = entries[k].text
                         /\ dispatchCalls[k].tag = Strip(entries[k].tag)

\* two parsed entries were dispatched with the supplied id and the result returned
C27_Witness ==
    /\ db_id_in = RawRecordId
    /\ pc = "done"
    /\ Len(entries) = 2
    /\ Len(dispatchCalls) = 2
    /\ dispatchCalls[2].id = RawRecordId
    /\ result.db_id = RawRecordId

\* C28: in the multi-entry branch without a supplied db_id every entry's save has
\* been attempted before the first process_entry_by_tag call, so no dispatch outcome
\* can keep a later entry's record from being saved.
C28_SavesBeforeDispatch ==
    /\ pc = "save_entries" => dispatchCalls = <<>> /\ handlerCalls = <<>>
    /\ (SavedIndividually /\ dispatchCalls # <<>>) =>
          /\ Len(saveCalls) = Len(entries_from_input)
          /\ \A k \in DOMAIN saveCalls :
                /\ saveCalls[k].text = entries_from_input[k].text
                /\ saveCalls[k].tag = entries_from_input[k].tag

\* both entries were saved, then the first dispatch failed
C28_Witness ==
    /\ SavedIndividually
    /\ Len(saveCalls) = 2
    /\ saveCalls[1].id # NoId
    /\ saveCalls[2].id # NoId
    /\ Len(transcriptions) = 3
    /\ Len(dispatchCalls) = 2
    /\ ~dispatchCalls[1].ret

\* the blocks of a raw string that are not blank: parts between empty lines
NonEmptyBlocks(r) ==
    LET blocks == Split(r, <<"\n","\n">>)
    IN  Cardinality({i \in DOMAIN blocks : Strip(blocks[i]) # <<>>})

\* C29: each parser returns at most one entry per non-blank block of the raw string;
\* a block holding several text:/tag: pairs on consecutive lines yields one entry.
C29_OneEntryPerBlock ==
    ppc \in {"strict", "permissive"} => Len(parsed) <= NonEmptyBlocks(response)

\* one block with two text:/tag: pairs on consecutive lines gave one entry
C29_Witness ==
    /\ ppc = "strict"
    /\ response = t_pair \o t_pair
    /\ NonEmptyBlocks(response) = 1
    /\ Len(parsed) = 1

\* C30: for a file the CLI processes, the raw record (tag raw_transcription) is never
\* handed to route_transcription as db_id; routing saves records of its own, no
\* dispatch carries the raw record's id, and the raw record is never marked processed.
C30_RawRecordUntouched ==
    /\ db_id_in # RawRecordId
    /\ db_id # RawRecordId
    /\ result.db_id # RawRecordId
    /\ transcriptions[RawRecordId] = NewRecord(text, s_raw_transcription)
    /\ \A k \in DOMAIN saveCalls : saveCalls[k].id # RawRecordId
    /\ \A k \in DOMAIN dispatchCalls : dispatchCalls[k].id # RawRecordId
    /\ \A k \in DOMAIN handlerCalls : handlerCalls[k].id # RawRecordId
    /\ dispatchCalls # <<>> => Len(transcriptions) > 1

\* routing saved a record of its own and marked that one processed, not the raw one
C30_Witness ==
    /\ pc = "done"
    /\ result.status = "success"
    /\ Len(transcriptions) = 2
    /\ transcriptions[2].is_processed
    /\ ~transcriptions[RawRecordId].is_processed
    /\ transcriptions[RawRecordId].tag = s_raw_transcription

====
